---- MODULE Spec2Model ----
(***************************************************************************)
(* A model of USimpleHttpServer (SimpleHttpServer.cpp): the route table,   *)
(* the two registration calls, the dispatchers, the root preprocessor and  *)
(* the start/stop lifecycle, together with the part of the HTTP transport  *)
(* (FHttpServerModule / IHttpRouter) that the server calls into.           *)
(*                                                                         *)
(* An FString is a sequence of one-character strings.                      *)
(***************************************************************************)
EXTENDS Integers, Sequences, FiniteSets, TLC

\* ------------------------------------------------------------------------
\* Bounds of the model
\* ------------------------------------------------------------------------

\* Longest raw path fed to NormalizeHttpPath by the path specification.
MaxLen == 4

\* Most registration calls (BindRoute, BindRouteNative) in one behaviour.
MaxRegs == 3

\* The characters raw paths are made of: a slash, a whitespace, a letter.
Chars == {"/", " ", "a"}

\* ------------------------------------------------------------------------
\* FString helpers used by NormalizeHttpPath
\* ------------------------------------------------------------------------

IsWhitespace(c) == c = " "

RECURSIVE TrimStart(_)
TrimStart(s) ==
    IF s # <<>> /\ IsWhitespace(Head(s)) THEN TrimStart(Tail(s)) ELSE s

RECURSIVE TrimEnd(_)
TrimEnd(s) ==
    IF s # <<>> /\ IsWhitespace(s[Len(s)])
    THEN TrimEnd(SubSeq(s, 1, Len(s) - 1))
    ELSE s

\* FString::TrimStartAndEndInline
TrimStartAndEnd(s) == TrimStart(TrimEnd(s))

\* FString::StartsWith(TEXT("/"))
StartsWithSlash(s) == s # <<>> /\ Head(s) = "/"

\* FString::EndsWith(TEXT("/"))
EndsWithSlash(s) == s # <<>> /\ s[Len(s)] = "/"

\* FString::LeftChopInline(n)
LeftChop(s, n) == SubSeq(s, 1, Len(s) - n)

\* The loop of lines 33-36: chop one trailing slash while longer than 1.
RECURSIVE StripTrailingSlashes(_)
StripTrailingSlashes(s) ==
    IF Len(s) > 1 /\ EndsWithSlash(s)
    THEN StripTrailingSlashes(LeftChop(s, 1))
    ELSE s

\* A plausible slip: the trailing-slash loop is left out.
NormalizeKeepTrailing(InPath) ==
    LET t == TrimStartAndEnd(InPath)
    IN  IF t = <<>> THEN <<"/">>
        ELSE IF ~StartsWithSlash(t) THEN <<"/">> \o t ELSE t

NormalizeHttpPath(InPath) ==
    LET t == TrimStartAndEnd(InPath)
    IN  IF t = <<>> THEN <<"/">>
        ELSE StripTrailingSlashes(IF ~StartsWithSlash(t) THEN <<"/">> \o t ELSE t)

RootPath == <<"/">>

\* ------------------------------------------------------------------------
\* Verb masks (ENativeHttpServerRequestVerbs, a uint8 bit field)
\* ------------------------------------------------------------------------

VERB_GET == 1
VERB_POST == 2

\* The single verbs a request can carry.
RequestVerbs == {VERB_GET, VERB_POST}

\* The masks a registration can pass.
VerbMasks == {VERB_GET, VERB_POST}

ToUint8(n) == n % 256

RECURSIVE BitOr(_, _)
BitOr(a, b) ==
    IF a = 0 THEN b
    ELSE IF b = 0 THEN a
    ELSE (IF a % 2 = 1 \/ b % 2 = 1 THEN 1 ELSE 0) + 2 * BitOr(a \div 2, b \div 2)

RECURSIVE BitAnd(_, _)
BitAnd(a, b) ==
    IF a = 0 \/ b = 0 THEN 0
    ELSE (IF a % 2 = 1 /\ b % 2 = 1 THEN 1 ELSE 0) + 2 * BitAnd(a \div 2, b \div 2)

VerbsMatch(AllowedVerbs, RequestVerb) ==
    LET AllowedMask == ToUint8(AllowedVerbs)
        RequestMask == ToUint8(RequestVerb)
    IN  BitAnd(AllowedMask, RequestMask) # 0

\* ------------------------------------------------------------------------
\* TMap helpers
\* ------------------------------------------------------------------------

EmptyMap == [k \in {} |-> {}]

\* TMap::Contains
Contains(m, k) == k \in DOMAIN m

\* TMap::Add: inserts the pair, replacing the value of an existing key.
MapAdd(m, k, v) == [x \in DOMAIN m \cup {k} |-> IF x = k THEN v ELSE m[x]]

\* A plausible slip: the second registration replaces the stored mask.
MergeVerbsReplace(verbs, NormalizedPath, Verbs) == MapAdd(verbs, NormalizedPath, Verbs)

\* Lines 115-122 and 192-199: OR into the existing mask, or add a new one.
MergeVerbs(verbs, NormalizedPath, Verbs) ==
    IF Contains(verbs, NormalizedPath)
    THEN [verbs EXCEPT ![NormalizedPath] = ToUint8(BitOr(ToUint8(@), ToUint8(Verbs)))]
    ELSE MapAdd(verbs, NormalizedPath, Verbs)

\* ------------------------------------------------------------------------
\* Inputs
\* ------------------------------------------------------------------------

\* Raw paths the application registers: the root, and "a/" (which
\* normalizes to "/a").
RawPaths == { <<"/">>, <<"a", "/">> }

\* Paths of incoming requests, as the transport matches them.
ReqPaths == { <<"/">>, <<"/", "a">> }

\* Callback-style handlers (FHttpServerRequestDelegate); "unbound" is a
\* delegate with nothing bound to it.
Delegates == {"d1", "unbound"}

\* FHttpServerRequestDelegate::IsBound
IsBound(d) == d # "unbound"

\* Direct-style handlers (FHttpRouteHandler).
Handlers == {"h1"}

\* Ports with a router in the transport, and the ports StartServer is given.
Ports == {1}
PortInputs == {0} \cup Ports

\* An invalid TSharedPtr<IHttpRouter>.
NoRouter == 0

\* An invalid handle (a default FDelegateHandle or FHttpRouteHandle).
NullHandle == 0

\* FHttpPath::IsValidPath of the transport, on a normalized path: it starts
\* with a slash and has no empty segment.
IsValidPath(p) ==
    /\ p # <<>>
    /\ Head(p) = "/"
    /\ \A i \in 1..(Len(p) - 1) : ~(p[i] = "/" /\ p[i + 1] = "/")

\* ------------------------------------------------------------------------
\* State
\* ------------------------------------------------------------------------

VARIABLES
    \* USimpleHttpServer
    RouteVerbs,                     \* TMap path -> accumulated verb mask
    RouteDelegates,                 \* TMap path -> callback-style handler
    RouteHandlers,                  \* TMap path -> direct-style handler
    HttpRouter,                     \* the router held: a port, or NoRouter
    CurrentServerPort,
    bServerStarted,
    bRootPreprocessorRegistered,
    RootRequestPreprocessorHandle,
    CreatedRouteHandlers,           \* TArray of the route handles it was given
    \* The transport (FHttpServerModule and its routers)
    BoundRoutes,                    \* the live route handles of all routers
    Preprocessors,                  \* the live request preprocessors
    bListening,                     \* StartAllListeners / StopAllListeners
    nextHandle,                     \* the id of the next handle it hands out
    \* Observation and history
    last,                           \* the last call and what it did
    regLog,                         \* every <<path, verb>> ever registered
    nRegs,                          \* registration calls so far
    stoppedSince,                   \* StopServer ran since the last successful start
    rawIn,                          \* the raw path of the path specification
    \* StopServer taken step by step, and the transport's request in flight
    teardown,                       \* where a StopServer in progress stands
    inflight                        \* a request accepted and not yet routed

vars == << RouteVerbs, RouteDelegates, RouteHandlers, HttpRouter,
           CurrentServerPort, bServerStarted, bRootPreprocessorRegistered,
           RootRequestPreprocessorHandle, CreatedRouteHandlers, BoundRoutes,
           Preprocessors, bListening, nextHandle, last, regLog, nRegs,
           stoppedSince, rawIn, teardown, inflight >>

\* The state the operations read and write, as one record.
Cur ==
    [ RouteVerbs |-> RouteVerbs,
      RouteDelegates |-> RouteDelegates,
      RouteHandlers |-> RouteHandlers,
      HttpRouter |-> HttpRouter,
      CurrentServerPort |-> CurrentServerPort,
      bServerStarted |-> bServerStarted,
      bRootPreprocessorRegistered |-> bRootPreprocessorRegistered,
      RootRequestPreprocessorHandle |-> RootRequestPreprocessorHandle,
      CreatedRouteHandlers |-> CreatedRouteHandlers,
      BoundRoutes |-> BoundRoutes,
      Preprocessors |-> Preprocessors,
      bListening |-> bListening,
      nextHandle |-> nextHandle,
      regLog |-> regLog,
      nRegs |-> nRegs,
      stoppedSince |-> stoppedSince ]

\* The next state is the record n.
Install(n) ==
    /\ RouteVerbs' = n.RouteVerbs
    /\ RouteDelegates' = n.RouteDelegates
    /\ RouteHandlers' = n.RouteHandlers
    /\ HttpRouter' = n.HttpRouter
    /\ CurrentServerPort' = n.CurrentServerPort
    /\ bServerStarted' = n.bServerStarted
    /\ bRootPreprocessorRegistered' = n.bRootPreprocessorRegistered
    /\ RootRequestPreprocessorHandle' = n.RootRequestPreprocessorHandle
    /\ CreatedRouteHandlers' = n.CreatedRouteHandlers
    /\ BoundRoutes' = n.BoundRoutes
    /\ Preprocessors' = n.Preprocessors
    /\ bListening' = n.bListening
    /\ nextHandle' = n.nextHandle
    /\ regLog' = n.regLog
    /\ nRegs' = n.nRegs
    /\ stoppedSince' = n.stoppedSince

\* ------------------------------------------------------------------------
\* Registration: BindRoute and BindRouteNative
\* ------------------------------------------------------------------------

\* Lines 172-180 and 249-257: HttpRouter->BindRoute with the verbs of this
\* call and a lambda of the given kind; the returned handle is tracked.
BindInRouter(s, RoutePath, Verbs, kind) ==
    LET h == [ id |-> s.nextHandle, port |-> s.HttpRouter,
               path |-> RoutePath, verbs |-> Verbs, kind |-> kind ]
    IN  [s EXCEPT !.BoundRoutes = @ \cup {h},
                  !.nextHandle = @ + 1,
                  !.CreatedRouteHandlers = Append(@, h)]

\* Lines 128-160 and 205-237: register the root preprocessor once.
RegisterRootPreprocessor(s) ==
    IF s.bRootPreprocessorRegistered THEN s
    ELSE [s EXCEPT !.RootRequestPreprocessorHandle = s.nextHandle,
                   !.Preprocessors = @ \cup
                       {[ id |-> s.nextHandle, port |-> s.HttpRouter ]},
                   !.nextHandle = @ + 1,
                   !.bRootPreprocessorRegistered = TRUE]

\* A plausible slip: the root path is bound like any other route.
IsRootRouteNever(NormalizedPath) == FALSE

\* Lines 126 and 203.
IsRootRoute(NormalizedPath) == NormalizedPath = RootPath

\* A plausible slip: the path is bound without asking the transport
\* whether it is valid.
PhysicalBindUnchecked(s, NormalizedPath, Verbs, kind) ==
    IF s.HttpRouter # NoRouter
    THEN IF IsRootRoute(NormalizedPath) THEN RegisterRootPreprocessor(s)
         ELSE BindInRouter(s, NormalizedPath, Verbs, kind)
    ELSE s

\* Lines 124-185 and 201-262, the same in both registration calls: with a
\* live router, the root path goes to the preprocessor, an invalid path is
\* skipped, any other path is bound; without one, only an error is logged.
PhysicalBind(s, NormalizedPath, Verbs, kind) ==
    IF s.HttpRouter # NoRouter
    THEN IF IsRootRoute(NormalizedPath) THEN RegisterRootPreprocessor(s)
         ELSE IF ~IsValidPath(NormalizedPath) THEN s
         ELSE BindInRouter(s, NormalizedPath, Verbs, kind)
    ELSE s

\* History: the verbs of this registration, per path.
LogRegistration(log, NormalizedPath, Verbs) ==
    log \cup { <<NormalizedPath, v>> : v \in {x \in RequestVerbs : VerbsMatch(Verbs, x)} }

\* A plausible slip: registering a callback-style handler drops the
\* direct-style handler of the path.
DoBindRouteDropsNative(s, HttpPath, Verbs, OnHttpServerRequest) ==
    LET NormalizedPath == NormalizeHttpPath(HttpPath)
        s1 == [s EXCEPT
                 !.RouteDelegates = MapAdd(@, NormalizedPath, OnHttpServerRequest),
                 !.RouteHandlers = [q \in DOMAIN @ \ {NormalizedPath} |-> @[q]],
                 !.RouteVerbs = MergeVerbs(@, NormalizedPath, Verbs),
                 !.regLog = LogRegistration(@, NormalizedPath, Verbs),
                 !.nRegs = @ + 1]
    IN  PhysicalBind(s1, NormalizedPath, Verbs, "delegate")

\* USimpleHttpServer::BindRoute, lines 111-186.
DoBindRoute(s, HttpPath, Verbs, OnHttpServerRequest) ==
    LET NormalizedPath == NormalizeHttpPath(HttpPath)
        s1 == [s EXCEPT
                 !.RouteDelegates = MapAdd(@, NormalizedPath, OnHttpServerRequest),
                 !.RouteVerbs = MergeVerbs(@, NormalizedPath, Verbs),
                 !.regLog = LogRegistration(@, NormalizedPath, Verbs),
                 !.nRegs = @ + 1]
    IN  PhysicalBind(s1, NormalizedPath, Verbs, "delegate")

\* USimpleHttpServer::BindRouteNative, lines 188-263.
DoBindRouteNative(s, HttpPath, Verbs, Handler) ==
    LET NormalizedPath == NormalizeHttpPath(HttpPath)
        s1 == [s EXCEPT
                 !.RouteHandlers = MapAdd(@, NormalizedPath, Handler),
                 !.RouteVerbs = MergeVerbs(@, NormalizedPath, Verbs),
                 !.regLog = LogRegistration(@, NormalizedPath, Verbs),
                 !.nRegs = @ + 1]
    IN  PhysicalBind(s1, NormalizedPath, Verbs, "native")

\* ------------------------------------------------------------------------
\* Lifecycle: StartServer, BindRoutes, StopServer
\* ------------------------------------------------------------------------

\* What an application's ReceiveBindRoutes event does: a list of
\* registration calls.  The event has no implementation unless the
\* application supplies one.
HookImpls ==
    { <<>>,
      << [kind |-> "native", path |-> <<"/">>, verbs |-> VERB_POST, handler |-> "h1"],
         [kind |-> "delegate", path |-> <<"a", "/">>, verbs |-> VERB_GET, handler |-> "d1"] >> }

RECURSIVE ReceiveBindRoutes(_, _)
ReceiveBindRoutes(s, regs) ==
    IF regs = <<>> THEN s
    ELSE LET r == Head(regs)
             s1 == IF r.kind = "delegate"
                   THEN DoBindRoute(s, r.path, r.verbs, r.handler)
                   ELSE DoBindRouteNative(s, r.path, r.verbs, r.handler)
         IN  ReceiveBindRoutes(s1, Tail(regs))

\* USimpleHttpServer::BindRoutes, lines 359-365: only the application's event.
BindRoutes(s, regs) == ReceiveBindRoutes(s, regs)

\* A plausible slip: the port is stored before it is checked.
DoStartServerPortFirst(s, ServerPort, router, regs) ==
    LET s1 == [s EXCEPT !.CurrentServerPort = ServerPort]
    IN  IF ServerPort <= 0 THEN s1
        ELSE LET s2 == [s1 EXCEPT !.HttpRouter = router]
             IN  IF s2.HttpRouter # NoRouter
                 THEN LET s3 == BindRoutes([s2 EXCEPT !.stoppedSince = FALSE], regs)
                      IN  [s3 EXCEPT !.bListening = TRUE, !.bServerStarted = TRUE]
                 ELSE [s2 EXCEPT !.bServerStarted = FALSE]

\* A plausible slip: the listeners are started and the flag is set whether
\* or not a router was obtained.
DoStartServerListensAnyway(s, ServerPort, router, regs) ==
    IF ServerPort <= 0 THEN s
    ELSE LET s1 == [s EXCEPT !.CurrentServerPort = ServerPort,
                             !.HttpRouter = router]
             s2 == IF s1.HttpRouter # NoRouter
                   THEN BindRoutes([s1 EXCEPT !.stoppedSince = FALSE], regs)
                   ELSE s1
         IN  [s2 EXCEPT !.bListening = TRUE, !.bServerStarted = TRUE]

\* USimpleHttpServer::StartServer, lines 56-84.  router is what
\* GetHttpRouter(ServerPort) returns: the port's router, or NoRouter.
DoStartServer(s, ServerPort, router, regs) ==
    IF ServerPort <= 0 THEN s
    ELSE LET s1 == [s EXCEPT !.CurrentServerPort = ServerPort,
                             !.HttpRouter = router]
         IN  IF s1.HttpRouter # NoRouter
             THEN LET s2 == BindRoutes([s1 EXCEPT !.stoppedSince = FALSE], regs)
                  IN  [s2 EXCEPT !.bListening = TRUE, !.bServerStarted = TRUE]
             ELSE [s1 EXCEPT !.bServerStarted = FALSE]

\* IHttpRouter::UnbindRoute on one router: the handle leaves the router if
\* it is one of its live routes.
UnbindRoute(routes, router, handle) ==
    { h \in routes : ~(h.port = router /\ h = handle) }

\* The loop of lines 104-107.
RECURSIVE UnbindCreated(_, _, _)
UnbindCreated(routes, router, handles) ==
    IF handles = <<>> THEN routes
    ELSE UnbindCreated(UnbindRoute(routes, router, Head(handles)), router, Tail(handles))

\* IHttpRouter::UnregisterRequestPreprocessor on one router.
UnregisterRequestPreprocessor(pres, router, handle) ==
    { p \in pres : ~(p.port = router /\ p.id = handle) }

\* USimpleHttpServer::StopServer, lines 86-109.
DoStopServer(s) ==
    LET s1 == [s EXCEPT !.bListening = FALSE, !.stoppedSince = s.bServerStarted]
    IN  IF s1.HttpRouter # NoRouter
        THEN LET s2 == IF s1.bRootPreprocessorRegistered
                       THEN [s1 EXCEPT
                               !.Preprocessors = UnregisterRequestPreprocessor(
                                   @, s1.HttpRouter, s1.RootRequestPreprocessorHandle),
                               !.bRootPreprocessorRegistered = FALSE]
                       ELSE s1
             IN  [s2 EXCEPT !.BoundRoutes =
                     UnbindCreated(@, s2.HttpRouter, s2.CreatedRouteHandlers)]
        ELSE s1

\* ------------------------------------------------------------------------
\* Dispatch: HandleRequest, HandleRequestNative, the root preprocessor
\* ------------------------------------------------------------------------

HTTP_OK == 200
HTTP_NOT_FOUND == 404

\* What a bound callback-style handler returns
\* (FNativeHttpServerResponse::HttpServerResponse).
Execute(d) ==
    [ Code |-> HTTP_OK, Body |-> <<d>>, Headers |-> <<"content-type", d>>,
      HttpVersion |-> "1.1" ]

\* FHttpServerResponse::Error(Code): the transport's error response.
ErrorResponse(Code) ==
    [ Code |-> Code, Body |-> <<>>, Headers |-> <<>>, HttpVersion |-> "1.1" ]

\* The outcome of a dispatch: the dispatcher entered and its path argument,
\* the handlers invoked, the responses passed to OnComplete, the value
\* returned to the transport.
NotHandled ==
    [ entered |-> "none", arg |-> <<>>, invoked |-> <<>>, completions |-> <<>>,
      ret |-> FALSE ]

\* A plausible slip: an unbound delegate ends the call without completing
\* the request.
HandleRequestNoFallThrough(s, HttpPath, Request) ==
    IF Contains(s.RouteDelegates, HttpPath)
    THEN IF IsBound(s.RouteDelegates[HttpPath])
         THEN [ entered |-> "HandleRequest", arg |-> HttpPath,
                invoked |-> << s.RouteDelegates[HttpPath] >>,
                completions |-> << Execute(s.RouteDelegates[HttpPath]) >>,
                ret |-> TRUE ]
         ELSE [ entered |-> "HandleRequest", arg |-> HttpPath, invoked |-> <<>>,
                completions |-> <<>>, ret |-> TRUE ]
    ELSE [ entered |-> "HandleRequest", arg |-> HttpPath, invoked |-> <<>>,
           completions |-> << ErrorResponse(HTTP_NOT_FOUND) >>, ret |-> TRUE ]

\* A plausible slip: the headers of the handler's response are not copied.
HandleRequestDropsHeaders(s, HttpPath, Request) ==
    IF Contains(s.RouteDelegates, HttpPath) /\ IsBound(s.RouteDelegates[HttpPath])
    THEN LET HttpServerResponse == Execute(s.RouteDelegates[HttpPath])
             Response == [ Body |-> HttpServerResponse.Body,
                           Code |-> HttpServerResponse.Code,
                           Headers |-> <<>>,
                           HttpVersion |-> HttpServerResponse.HttpVersion ]
         IN  [ entered |-> "HandleRequest", arg |-> HttpPath,
               invoked |-> << s.RouteDelegates[HttpPath] >>,
               completions |-> << Response >>, ret |-> TRUE ]
    ELSE [ entered |-> "HandleRequest", arg |-> HttpPath, invoked |-> <<>>,
           completions |-> << ErrorResponse(HTTP_NOT_FOUND) >>, ret |-> TRUE ]

\* USimpleHttpServer::HandleRequest, lines 265-289.
HandleRequest(s, HttpPath, Request) ==
    IF Contains(s.RouteDelegates, HttpPath) /\ IsBound(s.RouteDelegates[HttpPath])
    THEN LET HttpServerResponse == Execute(s.RouteDelegates[HttpPath])
             Response == [ Body |-> HttpServerResponse.Body,
                           Code |-> HttpServerResponse.Code,
                           Headers |-> HttpServerResponse.Headers,
                           HttpVersion |-> HttpServerResponse.HttpVersion ]
         IN  [ entered |-> "HandleRequest", arg |-> HttpPath,
               invoked |-> << s.RouteDelegates[HttpPath] >>,
               completions |-> << Response >>, ret |-> TRUE ]
    ELSE [ entered |-> "HandleRequest", arg |-> HttpPath, invoked |-> <<>>,
           completions |-> << ErrorResponse(HTTP_NOT_FOUND) >>, ret |-> TRUE ]

\* USimpleHttpServer::HandleRequestNative, lines 291-305.
HandleRequestNative(s, HttpPath, Request) ==
    IF Contains(s.RouteHandlers, HttpPath)
    THEN [ entered |-> "HandleRequestNative", arg |-> HttpPath,
           invoked |-> << s.RouteHandlers[HttpPath] >>,
           completions |-> <<>>, ret |-> TRUE ]
    ELSE [ entered |-> "HandleRequestNative", arg |-> HttpPath, invoked |-> <<>>,
           completions |-> << ErrorResponse(HTTP_NOT_FOUND) >>, ret |-> TRUE ]

\* A plausible slip: the preprocessor does not look at the verb.
RootVerbAllowedAlways(s, Request) == TRUE

\* Lines 138-144 and 215-221: the verb check of the root preprocessor.
RootVerbAllowed(s, Request) ==
    Contains(s.RouteVerbs, RootPath) => VerbsMatch(s.RouteVerbs[RootPath], Request.verb)

\* The root preprocessor lambda, lines 131-157 and 208-234.
RootPreprocessor(s, Request) ==
    IF Request.path # RootPath THEN NotHandled
    ELSE IF ~RootVerbAllowed(s, Request) THEN NotHandled
    ELSE IF Contains(s.RouteDelegates, RootPath)
    THEN HandleRequest(s, RootPath, Request)
    ELSE IF Contains(s.RouteHandlers, RootPath)
    THEN HandleRequestNative(s, RootPath, Request)
    ELSE NotHandled

\* The lambda bound with a route, lines 174-177 and 251-254: it dispatches
\* by the kind and the path it was bound with.
RouteLambda(s, h, Request) ==
    IF h.kind = "delegate" THEN HandleRequest(s, h.path, Request)
    ELSE IF h.kind = "native" THEN HandleRequestNative(s, h.path, Request)
    ELSE [ entered |-> "foreign", arg |-> h.path, invoked |-> <<>>,
           completions |-> <<>>, ret |-> TRUE ]

\* The live routes of a router that match a request: same path, and the
\* verbs the route was bound with contain the request's verb.
MatchingRoutes(s, port, Request) ==
    { h \in s.BoundRoutes :
        /\ h.port = port
        /\ h.path = Request.path
        /\ VerbsMatch(h.verbs, Request.verb) }

\* ------------------------------------------------------------------------
\* The specification
\* ------------------------------------------------------------------------

\* What the last call was and what it did.
NoLast(op) ==
    [ op |-> op, port |-> 0, path |-> <<>>, verb |-> 0, handler |-> "",
      ok |-> FALSE, restart |-> FALSE, pre |-> "absent", via |-> "none",
      handle |-> NullHandle,
      entered |-> "none", arg |-> <<>>, invoked |-> <<>>, completions |-> <<>>,
      handled |-> FALSE ]

\* A route of another user of the shared transport.
ForeignRoute ==
    [ id |-> 100, port |-> 1, path |-> <<"/", "f">>, verbs |-> VERB_GET,
      kind |-> "foreign" ]

\* No StopServer is in progress.
NoTeardown == [ pc |-> "none", i |-> 0, removed |-> 0 ]

\* The transport holds no request that it has accepted and not yet routed.
NoRequest == [ port |-> 0, path |-> <<>>, verb |-> 0 ]

\* No call is in progress: the last one has returned.
Idle == last.op = "none"

InitServer ==
    /\ RouteVerbs = EmptyMap
    /\ RouteDelegates = EmptyMap
    /\ RouteHandlers = EmptyMap
    /\ HttpRouter = NoRouter
    /\ CurrentServerPort = 0
    /\ bServerStarted = FALSE
    /\ bRootPreprocessorRegistered = FALSE
    /\ RootRequestPreprocessorHandle = NullHandle
    /\ CreatedRouteHandlers = <<>>
    /\ BoundRoutes = {ForeignRoute}
    /\ Preprocessors = {}
    /\ bListening = FALSE
    /\ nextHandle = 1
    /\ last = NoLast("none")
    /\ regLog = {}
    /\ nRegs = 0
    /\ stoppedSince = FALSE
    /\ teardown = NoTeardown
    /\ inflight = NoRequest

Init == InitServer /\ rawIn = <<>>

BindRouteWith(raw, Verbs, d) ==
    LET n == DoBindRoute(Cur, raw, Verbs, d)
    IN  /\ Idle
        /\ n.nRegs <= MaxRegs
        /\ Install(n)
        /\ last' = [NoLast("BindRoute") EXCEPT
                      !.path = NormalizeHttpPath(raw), !.handler = d]
        /\ UNCHANGED << rawIn, teardown, inflight >>

BindRouteNativeWith(raw, Verbs, h) ==
    LET n == DoBindRouteNative(Cur, raw, Verbs, h)
    IN  /\ Idle
        /\ n.nRegs <= MaxRegs
        /\ Install(n)
        /\ last' = [NoLast("BindRouteNative") EXCEPT
                      !.path = NormalizeHttpPath(raw), !.handler = h]
        /\ UNCHANGED << rawIn, teardown, inflight >>

BindRoute ==
    \E raw \in RawPaths, v \in VerbMasks, d \in Delegates :
        BindRouteWith(raw, v, d)

BindRouteNative ==
    \E raw \in RawPaths, v \in VerbMasks, h \in Handlers :
        BindRouteNativeWith(raw, v, h)

StartServerWith(ServerPort, ok, regs) ==
    LET router == IF ok THEN ServerPort ELSE NoRouter
        n == DoStartServer(Cur, ServerPort, router, regs)
    IN  /\ Idle
        /\ n.nRegs <= MaxRegs
        /\ Install(n)
        /\ last' = [NoLast("StartServer") EXCEPT
                      !.port = ServerPort,
                      !.ok = (ServerPort > 0 /\ ok),
                      !.restart = (ServerPort > 0 /\ ok /\ stoppedSince)]
        /\ UNCHANGED << rawIn, teardown, inflight >>

StartServer ==
    \E ServerPort \in PortInputs, ok \in BOOLEAN, regs \in HookImpls :
        StartServerWith(ServerPort, ok, regs)

StopServer ==
    /\ Idle
    /\ Install(DoStopServer(Cur))
    /\ last' = NoLast("StopServer")
    /\ UNCHANGED << rawIn, teardown, inflight >>

\* Another user of the process-wide transport starts the listeners again.
StartAllListeners ==
    /\ Idle
    /\ ~bListening
    /\ Install([Cur EXCEPT !.bListening = TRUE])
    /\ last' = NoLast("StartAllListeners")
    /\ UNCHANGED << rawIn, teardown, inflight >>

\* The transport routes a request of a port: the preprocessors of the
\* port's router come first, then the router's routes.  op names the
\* observation.
Route(op, port, path, verb) ==
    LET req == [path |-> path, verb |-> verb]
        base == [NoLast(op) EXCEPT !.port = port, !.path = path, !.verb = verb]
        hooked == \E p \in Preprocessors : p.port = port
        preRes == IF hooked THEN RootPreprocessor(Cur, req) ELSE NotHandled
        routes == MatchingRoutes(Cur, port, req)
    IN  IF preRes.ret
        THEN last' = [base EXCEPT
                        !.pre = "handled", !.via = "preprocessor",
                        !.entered = preRes.entered, !.arg = preRes.arg,
                        !.invoked = preRes.invoked,
                        !.completions = preRes.completions, !.handled = TRUE]
        ELSE IF routes # {}
        THEN \E h \in routes :
                LET res == RouteLambda(Cur, h, req)
                IN  last' = [base EXCEPT
                               !.pre = IF hooked THEN "nothandled" ELSE "absent",
                               !.via = "route", !.handle = h.id,
                               !.entered = res.entered, !.arg = res.arg,
                               !.invoked = res.invoked,
                               !.completions = res.completions,
                               !.handled = res.ret]
        ELSE last' = [base EXCEPT !.pre = IF hooked THEN "nothandled" ELSE "absent"]

\* The transport takes a request on a port and routes it.
Request ==
    /\ Idle
    /\ bListening
    /\ \E port \in Ports, path \in ReqPaths, verb \in RequestVerbs :
          Route("Request", port, path, verb)
    /\ UNCHANGED << RouteVerbs, RouteDelegates, RouteHandlers, HttpRouter,
                    CurrentServerPort, bServerStarted, bRootPreprocessorRegistered,
                    RootRequestPreprocessorHandle, CreatedRouteHandlers, BoundRoutes,
                    Preprocessors, bListening, nextHandle, regLog, nRegs,
                    stoppedSince, rawIn, teardown, inflight >>

\* The call returns to its caller.
Return ==
    /\ ~Idle
    /\ last' = NoLast("none")
    /\ UNCHANGED << RouteVerbs, RouteDelegates, RouteHandlers, HttpRouter,
                    CurrentServerPort, bServerStarted, bRootPreprocessorRegistered,
                    RootRequestPreprocessorHandle, CreatedRouteHandlers, BoundRoutes,
                    Preprocessors, bListening, nextHandle, regLog, nRegs,
                    stoppedSince, rawIn, teardown, inflight >>

Next ==
    \/ Return
    \/ BindRoute
    \/ BindRouteNative
    \/ StartServer
    \/ StopServer
    \/ StartAllListeners
    \/ Request

Spec == Init /\ [][Next]_vars

\* ------------------------------------------------------------------------
\* The path specification: NormalizeHttpPath and the registration calls on
\* every raw path of at most MaxLen characters
\* ------------------------------------------------------------------------

Strings(n) == UNION { [1..k -> Chars] : k \in 0..n }

PathInit == InitServer /\ rawIn \in Strings(MaxLen)

Normalize ==
    /\ Idle
    /\ last' = [NoLast("NormalizeHttpPath") EXCEPT !.path = NormalizeHttpPath(rawIn)]
    /\ UNCHANGED << RouteVerbs, RouteDelegates, RouteHandlers, HttpRouter,
                    CurrentServerPort, bServerStarted, bRootPreprocessorRegistered,
                    RootRequestPreprocessorHandle, CreatedRouteHandlers, BoundRoutes,
                    Preprocessors, bListening, nextHandle, regLog, nRegs,
                    stoppedSince, rawIn, teardown, inflight >>

PathBindRoute ==
    \E v \in VerbMasks, d \in Delegates : BindRouteWith(rawIn, v, d)

PathBindRouteNative ==
    \E v \in VerbMasks, h \in Handlers : BindRouteNativeWith(rawIn, v, h)

PathNext ==
    \/ Return
    \/ Normalize
    \/ PathBindRoute
    \/ PathBindRouteNative

PathSpec == PathInit /\ [][PathNext]_vars

\* ------------------------------------------------------------------------
\* The dispatch specification: the two dispatchers called with any path,
\* on any route table the registration calls can build
\* ------------------------------------------------------------------------

\* The paths the dispatchers are entered with: the request paths and "/b",
\* which is never registered.
DispatchPaths == ReqPaths \cup { <<"/", "b">> }

CallHandleRequest ==
    /\ Idle
    /\ \E path \in DispatchPaths, verb \in RequestVerbs :
        LET res == HandleRequest(Cur, path, [path |-> path, verb |-> verb])
        IN  last' = [NoLast("HandleRequest") EXCEPT
                       !.path = path, !.verb = verb,
                       !.entered = res.entered, !.arg = res.arg,
                       !.invoked = res.invoked, !.completions = res.completions,
                       !.handled = res.ret]
    /\ UNCHANGED << RouteVerbs, RouteDelegates, RouteHandlers, HttpRouter,
                    CurrentServerPort, bServerStarted, bRootPreprocessorRegistered,
                    RootRequestPreprocessorHandle, CreatedRouteHandlers, BoundRoutes,
                    Preprocessors, bListening, nextHandle, regLog, nRegs,
                    stoppedSince, rawIn, teardown, inflight >>

CallHandleRequestNative ==
    /\ Idle
    /\ \E path \in DispatchPaths, verb \in RequestVerbs :
        LET res == HandleRequestNative(Cur, path, [path |-> path, verb |-> verb])
        IN  last' = [NoLast("HandleRequestNative") EXCEPT
                       !.path = path, !.verb = verb,
                       !.entered = res.entered, !.arg = res.arg,
                       !.invoked = res.invoked, !.completions = res.completions,
                       !.handled = res.ret]
    /\ UNCHANGED << RouteVerbs, RouteDelegates, RouteHandlers, HttpRouter,
                    CurrentServerPort, bServerStarted, bRootPreprocessorRegistered,
                    RootRequestPreprocessorHandle, CreatedRouteHandlers, BoundRoutes,
                    Preprocessors, bListening, nextHandle, regLog, nRegs,
                    stoppedSince, rawIn, teardown, inflight >>

DispatchNext ==
    \/ Return
    \/ BindRoute
    \/ BindRouteNative
    \/ CallHandleRequest
    \/ CallHandleRequestNative

DispatchSpec == Init /\ [][DispatchNext]_vars

\* ------------------------------------------------------------------------
\* The lifecycle specification: StartServer on two ports and with port
\* numbers that are not positive, StopServer, and registrations of the
\* root, of a path and of a path the transport rejects
\* ------------------------------------------------------------------------

\* The ports of the lifecycle specification; each has its own router.
LifecyclePorts == {1, 2}

\* The ServerPort arguments: the ports, zero and a negative number.
LifecyclePortInputs == {0 - 1, 0} \cup LifecyclePorts

\* The raw paths registered: "/", "a/" and "//a", which normalizes to
\* itself and is not a valid route path.
LifecyclePaths == { <<"/">>, <<"a", "/">>, <<"/", "/", "a">> }

LifecycleBindRoute ==
    \E raw \in LifecyclePaths : BindRouteWith(raw, VERB_GET, "d1")

LifecycleBindRouteNative ==
    \E raw \in LifecyclePaths : BindRouteNativeWith(raw, VERB_POST, "h1")

LifecycleStartServer ==
    \E ServerPort \in LifecyclePortInputs, ok \in BOOLEAN, regs \in HookImpls :
        StartServerWith(ServerPort, ok, regs)

LifecycleNext ==
    \/ Return
    \/ LifecycleBindRoute
    \/ LifecycleBindRouteNative
    \/ LifecycleStartServer
    \/ StopServer

LifecycleSpec == Init /\ [][LifecycleNext]_vars

\* ------------------------------------------------------------------------
\* The registration specification: the two registration calls with two
\* handlers of each kind
\* ------------------------------------------------------------------------

\* The direct-style handlers registered: two different ones.
RegistrationHandlers == Handlers \cup {"h2"}

RegistrationBindRoute ==
    \E raw \in RawPaths, v \in VerbMasks, d \in Delegates :
        BindRouteWith(raw, v, d)

RegistrationBindRouteNative ==
    \E raw \in RawPaths, v \in VerbMasks, h \in RegistrationHandlers :
        BindRouteNativeWith(raw, v, h)

RegistrationNext ==
    \/ Return
    \/ RegistrationBindRoute
    \/ RegistrationBindRouteNative

RegistrationSpec == Init /\ [][RegistrationNext]_vars

\* ------------------------------------------------------------------------
\* The teardown specification: StopServer one transport call at a time,
\* with a request the transport accepted before the stop and routes on its
\* own thread at any moment
\* ------------------------------------------------------------------------

\* Everything but the transport's routes and preprocessors, the listening
\* flag, the preprocessor flag, the stop history and the observation.
TeardownFrame ==
    << RouteVerbs, RouteDelegates, RouteHandlers, HttpRouter, CurrentServerPort,
       bServerStarted, RootRequestPreprocessorHandle, CreatedRouteHandlers,
       nextHandle, regLog, nRegs, rawIn >>

TeardownStartServer ==
    /\ teardown.pc = "none"
    /\ \E ok \in BOOLEAN, regs \in HookImpls : StartServerWith(1, ok, regs)

TeardownBindRouteNative ==
    /\ teardown.pc = "none"
    /\ BindRouteNativeWith(<<"a", "/">>, VERB_POST, "h1")

\* The transport accepts a request while it listens.
Accept ==
    /\ Idle
    /\ bListening
    /\ inflight = NoRequest
    /\ \E port \in Ports, path \in ReqPaths, verb \in RequestVerbs :
          inflight' = [ port |-> port, path |-> path, verb |-> verb ]
    /\ UNCHANGED << TeardownFrame, BoundRoutes, Preprocessors, bListening,
                    bRootPreprocessorRegistered, stoppedSince, last, teardown >>

\* The transport routes the request it accepted.
Dispatch ==
    /\ Idle
    /\ inflight # NoRequest
    /\ Route("Dispatch", inflight.port, inflight.path, inflight.verb)
    /\ inflight' = NoRequest
    /\ UNCHANGED << TeardownFrame, BoundRoutes, Preprocessors, bListening,
                    bRootPreprocessorRegistered, stoppedSince, teardown >>

\* StopServer, line 91: StopAllListeners; without a router (line 93) the
\* call returns.
StopAllListenersStep ==
    /\ Idle
    /\ teardown.pc = "none"
    /\ bListening' = FALSE
    /\ stoppedSince' = bServerStarted
    /\ IF HttpRouter # NoRouter
       THEN /\ teardown' = [ pc |-> "unregister", i |-> 0, removed |-> 0 ]
            /\ last' = last
       ELSE /\ teardown' = NoTeardown
            /\ last' = NoLast("StopServer")
    /\ UNCHANGED << TeardownFrame, BoundRoutes, Preprocessors,
                    bRootPreprocessorRegistered, inflight >>

\* StopServer, lines 95-99: the root preprocessor is unregistered.
UnregisterStep ==
    /\ Idle
    /\ teardown.pc = "unregister"
    /\ IF bRootPreprocessorRegistered
       THEN /\ Preprocessors' = UnregisterRequestPreprocessor(
                                   Preprocessors, HttpRouter,
                                   RootRequestPreprocessorHandle)
            /\ bRootPreprocessorRegistered' = FALSE
       ELSE UNCHANGED << Preprocessors, bRootPreprocessorRegistered >>
    /\ teardown' = [ pc |-> "unbind", i |-> 1,
                     removed |-> Cardinality(Preprocessors)
                                   - Cardinality(Preprocessors') ]
    /\ UNCHANGED << TeardownFrame, BoundRoutes, bListening, stoppedSince,
                    last, inflight >>

\* StopServer, lines 104-107: one iteration of the loop, or its end and
\* the return of the call.
UnbindStep ==
    /\ Idle
    /\ teardown.pc = "unbind"
    /\ IF teardown.i <= Len(CreatedRouteHandlers)
       THEN /\ BoundRoutes' = UnbindRoute(BoundRoutes, HttpRouter,
                                          CreatedRouteHandlers[teardown.i])
            /\ teardown' = [ teardown EXCEPT
                               !.i = @ + 1,
                               !.removed = @ + Cardinality(BoundRoutes)
                                             - Cardinality(BoundRoutes') ]
            /\ last' = last
       ELSE /\ teardown' = NoTeardown
            /\ last' = NoLast("StopServer")
            /\ UNCHANGED BoundRoutes
    /\ UNCHANGED << TeardownFrame, Preprocessors, bListening,
                    bRootPreprocessorRegistered, stoppedSince, inflight >>

TeardownNext ==
    \/ Return
    \/ TeardownStartServer
    \/ TeardownBindRouteNative
    \/ Accept
    \/ Dispatch
    \/ StopAllListenersStep
    \/ UnregisterStep
    \/ UnbindStep

TeardownSpec == Init /\ [][TeardownNext]_vars

\* ------------------------------------------------------------------------
\* Properties
\* ------------------------------------------------------------------------

PathA == <<"/", "a">>

\* A canonical path: not empty, starts with a slash, and ends with a slash
\* only when it is the root.
Canonical(p) ==
    /\ p # <<>>
    /\ Head(p) = "/"
    /\ (p[Len(p)] = "/" => p = RootPath)

\* Every key of the three maps of the route table.
RouteKeys == DOMAIN RouteVerbs \cup DOMAIN RouteDelegates \cup DOMAIN RouteHandlers

\* C1 (PathSpec): normalizing a normalized path changes nothing, for every
\* raw path, those with whitespace next to a trailing slash included.
NormalizeIdempotent ==
    last.op = "NormalizeHttpPath" => NormalizeHttpPath(last.path) = last.path

\* C2 (PathSpec): NormalizeHttpPath returns a canonical path for every raw
\* path (the empty and the all-whitespace path give "/", "a" gives "/a",
\* "/a//" gives "/a"), and every key of the route table is canonical after
\* any registration calls.
NormalizeCanonical ==
    /\ last.op = "NormalizeHttpPath" =>
          /\ Canonical(last.path)
          /\ (\A i \in 1..Len(rawIn) : IsWhitespace(rawIn[i])) => last.path = RootPath
          /\ rawIn = <<"a">> => last.path = PathA
          /\ rawIn = <<"/", "a", "/">> => last.path = PathA
          /\ rawIn = <<"/", "a", "/", "/">> => last.path = PathA
          /\ rawIn = <<"/">> => last.path = RootPath
    /\ \A k \in RouteKeys : Canonical(k)

\* C2 witness: both registration calls have stored the raw path "/a//"
\* under the key "/a".
NormalizeCanonicalWitness ==
    /\ rawIn = <<"/", "a", "/", "/">>
    /\ last.op = "BindRouteNative"
    /\ Contains(RouteDelegates, PathA)
    /\ Contains(RouteHandlers, PathA)

\* The paths that were ever registered.
RegisteredPaths == { e[1] : e \in regLog }

\* C3 (Spec): the verb mask stored for a path is the union of the verb
\* masks of every registration ever made for it, of either kind: a path has
\* a mask exactly when it was registered, and the mask contains a verb
\* exactly when some registration of the path carried it.
VerbMaskIsUnion ==
    /\ DOMAIN RouteVerbs = RegisteredPaths
    /\ \A p \in DOMAIN RouteVerbs :
          /\ RouteVerbs[p] \in 1..(VERB_GET + VERB_POST)
          /\ \A v \in RequestVerbs :
                VerbsMatch(RouteVerbs[p], v) <=> <<p, v>> \in regLog

\* C3 witness: "/a" was registered by both calls, with GET and with POST,
\* and its mask holds both verbs.
VerbMaskIsUnionWitness ==
    /\ Contains(RouteDelegates, PathA)
    /\ Contains(RouteHandlers, PathA)
    /\ RouteVerbs[PathA] = VERB_GET + VERB_POST

\* The route table has the path, and its mask contains the verb.
Registered(path, verb) ==
    Contains(RouteVerbs, path) /\ VerbsMatch(RouteVerbs[path], verb)

\* The server has started and has not been stopped since.
Running == bServerStarted /\ ~stoppedSince /\ HttpRouter # NoRouter

\* C4 (Spec): while the server is running, a request on its port reaches a
\* dispatcher of the instance exactly when the route table has its path
\* with a mask that contains its verb.
MatchedIffRegistered ==
    (last.op = "Request" /\ Running /\ last.port = HttpRouter) =>
        (last.handled <=> Registered(last.path, last.verb))

\* C5 (Spec): a request that reaches the instance for a path with both a
\* bound callback-style handler and a direct-style handler invokes only the
\* callback-style handler, and its response is the one completed with.
\* (Stated for requests that at most one route of the router matches, so
\* that no choice of the transport among several routes is involved.)
CallbackPrecedence ==
    ( /\ last.op = "Request"
      /\ last.handled
      /\ Cardinality(MatchingRoutes(Cur, last.port, last)) <= 1
      /\ Contains(RouteDelegates, last.path)
      /\ IsBound(RouteDelegates[last.path])
      /\ Contains(RouteHandlers, last.path) ) =>
        /\ last.invoked = << RouteDelegates[last.path] >>
        /\ last.completions = << Execute(RouteDelegates[last.path]) >>

\* The dispatcher that was entered has no usable handler of its kind for
\* its path argument.
NoUsableHandler ==
    \/ /\ last.entered = "HandleRequest"
       /\ ~(Contains(RouteDelegates, last.arg) /\ IsBound(RouteDelegates[last.arg]))
    \/ /\ last.entered = "HandleRequestNative"
       /\ ~Contains(RouteHandlers, last.arg)

\* C6 (DispatchSpec): a dispatcher entered for a path with no usable
\* handler of its kind invokes no handler and completes the request exactly
\* once, before it returns, with the transport's 404 response without a body.
NotFoundCompleteness ==
    NoUsableHandler =>
        /\ last.invoked = <<>>
        /\ Len(last.completions) = 1
        /\ last.completions[1].Code = HTTP_NOT_FOUND
        /\ last.completions[1].Body = <<>>
        /\ last.handled

\* C6 witness: HandleRequest found an unbound delegate and completed with 404.
NotFoundCompletenessWitness ==
    /\ last.entered = "HandleRequest"
    /\ Contains(RouteDelegates, last.arg)
    /\ ~IsBound(RouteDelegates[last.arg])
    /\ last.completions = << ErrorResponse(HTTP_NOT_FOUND) >>

\* C7 (Spec): no route handle of the instance is bound for "/"; a request
\* to "/" never goes through a bound route; the root preprocessor, when it
\* is live on the request's router, handles the request exactly when the
\* path is the root and the accumulated mask of "/" contains the verb, and
\* it then dispatches to the handler registered for "/".
RootSpecialCase ==
    /\ \A h \in BoundRoutes : h.path # RootPath
    /\ last.op = "Request" =>
          /\ last.path = RootPath => last.via # "route"
          /\ last.via = "preprocessor" <=> last.pre = "handled"
          /\ last.pre # "absent" =>
                (last.pre = "handled" <=>
                    (last.path = RootPath /\ Registered(RootPath, last.verb)))
          /\ last.pre = "handled" =>
                /\ last.handled
                /\ last.arg = RootPath
                /\ last.entered = IF Contains(RouteDelegates, RootPath)
                                  THEN "HandleRequest"
                                  ELSE "HandleRequestNative"
                /\ Contains(RouteDelegates, RootPath) \/ Contains(RouteHandlers, RootPath)

\* C7 witness: a request to "/" was handled by the root preprocessor and
\* reached the handler registered for "/".
RootSpecialCaseWitness ==
    /\ last.op = "Request"
    /\ last.path = RootPath
    /\ last.pre = "handled"
    /\ last.invoked # <<>>

\* The path is physically bound in the router the instance holds: the root
\* by the preprocessor, any other path by a live route.
BoundInRouter(p) ==
    IF p = RootPath
    THEN \E q \in Preprocessors : q.port = HttpRouter
    ELSE \E h \in BoundRoutes : h.port = HttpRouter /\ h.path = p

\* C8 (Spec): after a successful StartServer every route of the route
\* table is bound in the router.
StartBindsEveryRoute ==
    (last.op = "StartServer" /\ last.ok) =>
        \A p \in DOMAIN RouteVerbs : BoundInRouter(p)

\* The paths the instance has bound in a router at some time.
EverBoundPaths ==
    { CreatedRouteHandlers[i].path : i \in DOMAIN CreatedRouteHandlers }
        \cup (IF RootRequestPreprocessorHandle # NullHandle THEN {RootPath} ELSE {})

\* C9 (Spec): after start, stop and start again every route that was bound
\* before is bound again, and every tracked handle is a live route of the
\* router, tracked once.
RestartRebinds ==
    (last.op = "StartServer" /\ last.restart) =>
        /\ \A p \in EverBoundPaths : BoundInRouter(p)
        /\ \A i \in DOMAIN CreatedRouteHandlers :
              /\ CreatedRouteHandlers[i] \in BoundRoutes
              /\ CreatedRouteHandlers[i].port = HttpRouter
              /\ \A j \in DOMAIN CreatedRouteHandlers :
                    CreatedRouteHandlers[j] = CreatedRouteHandlers[i] => j = i

\* The handles the instance created that are still live in the transport.
OwnLive ==
    { h \in BoundRoutes : h.kind # "foreign" } \cup Preprocessors

\* C10 (Spec): after StopServer, whether or not the server was ever
\* started, no handle of the instance is live in the transport, and a
\* second StopServer changes nothing.
StopIdempotent ==
    last.op = "StopServer" =>
        /\ OwnLive = {}
        /\ DoStopServer(Cur) = Cur

\* The route handles the instance created that are still bound in a router.
OwnBoundRoutes == { h \in BoundRoutes : h.kind # "foreign" }

\* C11 (LifecycleSpec): after StopServer no route handle the instance
\* created is bound in any router, whatever StartServer calls came before
\* (repeated, on another port, or failed), and the route of the other user
\* of the transport is still bound.
StopUnbindsOwnSet ==
    last.op = "StopServer" =>
        /\ OwnBoundRoutes = {}
        /\ ForeignRoute \in BoundRoutes

\* The route table, the instance's other members and the transport.
RouteTable == << RouteVerbs, RouteDelegates, RouteHandlers >>
InstanceState == << HttpRouter, CurrentServerPort, bServerStarted,
                    bRootPreprocessorRegistered, RootRequestPreprocessorHandle,
                    CreatedRouteHandlers >>
Transport == << BoundRoutes, Preprocessors, bListening, nextHandle >>

\* C12 (LifecycleSpec): StartServer with a port that is not positive
\* changes nothing: not the port, the router, the started flag, the route
\* table, the tracked handles or the preprocessor flag, and nothing in the
\* transport.
StartInvalidPortNoMutation ==
    [][ (last'.op = "StartServer" /\ last'.port <= 0) =>
            UNCHANGED << RouteTable, InstanceState, Transport, regLog, nRegs >> ]_vars

\* C12 witness: StartServer with a negative port returned on a started
\* instance, on port 2, that tracks a bound route.
StartInvalidPortWitness ==
    /\ last.op = "StartServer"
    /\ last.port < 0
    /\ bServerStarted
    /\ CurrentServerPort = 2
    /\ CreatedRouteHandlers # <<>>

\* C13 (LifecycleSpec): when GetHttpRouter gives no router for a positive
\* port, StartServer binds no route and registers no preprocessor, does not
\* raise ReceiveBindRoutes, does not start the listeners, and leaves the
\* started flag false.
StartRouterUnavailable ==
    [][ (last'.op = "StartServer" /\ last'.port > 0 /\ ~last'.ok) =>
            /\ UNCHANGED << RouteTable, CreatedRouteHandlers, BoundRoutes,
                            Preprocessors, nextHandle, bListening, regLog, nRegs >>
            /\ ~bServerStarted' ]_vars

\* C13 witness: StartServer found no router, on an instance with a route in
\* its table, while the listeners are stopped.
StartRouterUnavailableWitness ==
    /\ last.op = "StartServer"
    /\ last.port > 0
    /\ ~last.ok
    /\ ~bListening
    /\ ~bServerStarted
    /\ DOMAIN RouteVerbs # {}

\* C14 (LifecycleSpec): at most one request preprocessor of the instance
\* is live in the transport at any time; a registration of "/" made while
\* the instance holds a router leaves one live on that router; StopServer
\* leaves none live.
RootPreprocessorSingleton ==
    /\ Cardinality(Preprocessors) <= 1
    /\ (last.op \in {"BindRoute", "BindRouteNative"}
            /\ last.path = RootPath /\ HttpRouter # NoRouter) =>
          \E q \in Preprocessors : q.port = HttpRouter
    /\ last.op = "StopServer" => Preprocessors = {}

\* C15 (DispatchSpec): HandleRequest calls OnComplete exactly once before
\* it returns, whether the delegate is bound, unbound or missing; with a
\* bound delegate the delegate is executed once and the response completed
\* with has the code, body, headers and version of the delegate's response.
ExactlyOneCompletion ==
    last.entered = "HandleRequest" =>
        /\ Len(last.completions) = 1
        /\ last.handled
        /\ (Contains(RouteDelegates, last.arg) /\ IsBound(RouteDelegates[last.arg])) =>
              LET r == Execute(RouteDelegates[last.arg])
                  c == last.completions[1]
              IN  /\ last.invoked = << RouteDelegates[last.arg] >>
                  /\ c.Code = r.Code
                  /\ c.Body = r.Body
                  /\ c.Headers = r.Headers
                  /\ c.HttpVersion = r.HttpVersion

\* C15 witness: HandleRequest executed a bound delegate and completed with
\* its response, headers included.
ExactlyOneCompletionWitness ==
    /\ last.op = "HandleRequest"
    /\ last.invoked = << "d1" >>
    /\ Len(last.completions) = 1
    /\ last.completions[1].Code = HTTP_OK
    /\ last.completions[1].Headers # <<>>

\* The map after is the map before with handler stored under path: the
\* entry of path is handler, every other entry is as before.
Replaced(before, after, path, handler) ==
    /\ DOMAIN after = DOMAIN before \cup {path}
    /\ after[path] = handler
    /\ \A q \in DOMAIN before \ {path} : after[q] = before[q]

\* C16 (RegistrationSpec): BindRoute stores its delegate as the path's
\* callback-style handler and changes no other entry of RouteDelegates and
\* nothing of RouteHandlers; BindRouteNative does the same with the two
\* maps exchanged; no registration removes a path from the route table.
LastWinsPerKind ==
    [][ /\ last'.op = "BindRoute" =>
              /\ Replaced(RouteDelegates, RouteDelegates', last'.path, last'.handler)
              /\ RouteHandlers' = RouteHandlers
        /\ last'.op = "BindRouteNative" =>
              /\ Replaced(RouteHandlers, RouteHandlers', last'.path, last'.handler)
              /\ RouteDelegates' = RouteDelegates
        /\ DOMAIN RouteVerbs \subseteq DOMAIN RouteVerbs'
        /\ DOMAIN RouteDelegates \subseteq DOMAIN RouteDelegates'
        /\ DOMAIN RouteHandlers \subseteq DOMAIN RouteHandlers' ]_vars

\* C16 witness: the third registration, the second BindRouteNative of
\* "/a", stored h2 while "/a" has a callback-style handler.
LastWinsPerKindWitness ==
    /\ last.op = "BindRouteNative"
    /\ last.path = PathA
    /\ last.handler = "h2"
    /\ nRegs = 3
    /\ DOMAIN RouteVerbs = {PathA}
    /\ RouteHandlers[PathA] = "h2"
    /\ Contains(RouteDelegates, PathA)

\* The registration calls.
Registrations == {"BindRoute", "BindRouteNative"}

\* The route table t has the path, with the handler of the given call.
Recorded(t, op, path, handler) ==
    /\ Contains(t[1], path)
    /\ IF op = "BindRoute"
       THEN Contains(t[2], path) /\ t[2][path] = handler
       ELSE Contains(t[3], path) /\ t[3][path] = handler

\* C17 (LifecycleSpec): a registration whose normalized path the transport
\* does not accept is recorded in the route table, binds nothing and tracks
\* no handle; a registration of a valid path other than the root, made
\* while the instance holds a router, binds one new route on that router
\* and tracks its handle, whatever was skipped before; no handle of an
\* invalid path is ever bound or tracked.
InvalidPathSkipped ==
    [][ /\ (last'.op \in Registrations /\ ~IsValidPath(last'.path)) =>
              /\ Recorded(RouteTable', last'.op, last'.path, last'.handler)
              /\ UNCHANGED << BoundRoutes, Preprocessors, nextHandle,
                              CreatedRouteHandlers >>
        /\ (last'.op \in Registrations /\ IsValidPath(last'.path)
                /\ last'.path # RootPath /\ HttpRouter # NoRouter) =>
              \E h \in BoundRoutes' \ BoundRoutes :
                  /\ h.path = last'.path
                  /\ h.port = HttpRouter
                  /\ BoundRoutes' = BoundRoutes \cup {h}
                  /\ CreatedRouteHandlers' = Append(CreatedRouteHandlers, h)
        /\ \A h \in OwnBoundRoutes' : IsValidPath(h.path)
        /\ \A j \in DOMAIN CreatedRouteHandlers' :
              IsValidPath(CreatedRouteHandlers'[j].path) ]_vars

\* The path "//a".
InvalidPath == <<"/", "/", "a">>

\* C17 witness: BindRouteNative of "//a" returned on an instance that holds
\* a router: the path is in the table and no handle was made for it, and a
\* route bound before it is still tracked.
InvalidPathSkippedWitness ==
    /\ last.op = "BindRouteNative"
    /\ last.path = InvalidPath
    /\ HttpRouter # NoRouter
    /\ RouteHandlers[InvalidPath] = "h1"
    /\ Contains(RouteVerbs, InvalidPath)
    /\ CreatedRouteHandlers # <<>>
    /\ \A h \in BoundRoutes : h.path # InvalidPath

\* C18 (LifecycleSpec): bServerStarted is true after a successful
\* StartServer; after StopServer it is false and the instance holds no
\* router, until the next successful StartServer.
LifecycleFlag ==
    /\ (last.op = "StartServer" /\ last.ok) => bServerStarted
    /\ last.op = "StopServer" => (~bServerStarted /\ HttpRouter = NoRouter)
    /\ stoppedSince => (~bServerStarted /\ HttpRouter = NoRouter)

\* C19 (LifecycleSpec): from a StopServer of a started instance until the
\* next successful StartServer, no route and no preprocessor of the
\* instance is live in the transport, and a registration call changes
\* nothing in the transport and tracks no handle.
StoppedWindowInert ==
    [][ /\ stoppedSince' => (OwnBoundRoutes' = {} /\ Preprocessors' = {})
        /\ (stoppedSince /\ last'.op \in Registrations) =>
              UNCHANGED << BoundRoutes, Preprocessors, nextHandle,
                          CreatedRouteHandlers >> ]_vars

\* A StopServer in progress has removed some of the instance's handles
\* from the transport while others are still live.
PartlyTornDown ==
    /\ teardown.pc # "none"
    /\ teardown.removed > 0
    /\ OwnLive # {}

\* C20 (TeardownSpec): no request is routed while some handles of the
\* instance are already removed by a StopServer in progress and others
\* are still live.
TeardownAtomic ==
    last.op = "Dispatch" => ~PartlyTornDown
====
